---- MODULE Spec2Model ----
(***************************************************************************)
(* Model of app.py, the Flask backend of the video-to-PDF converter.       *)
(*                                                                         *)
(* Two specifications share the module:                                    *)
(*   Spec        the two request handlers /convert and /convert-upload,    *)
(*               run by concurrent invocations over one working directory  *)
(*               (the file names of app.py are fixed, so the directory is  *)
(*               the state the invocations share);                         *)
(*   SpecDecode  the recognizer loop of transcribe_audio, one frame per    *)
(*               step, over every bounded stream of recognizer results.    *)
(* Texts are sequences of one-character strings, so that strip(), join()   *)
(* and len() are computed and not assumed.                                 *)
(***************************************************************************)
EXTENDS Integers, Sequences, FiniteSets, TLC

\* ------------------------------------------------------------------ bounds

\* Concurrent invocations (Flask serves each request on its own thread).
NInv == 2

\* Frames a decoded stream holds at most (SpecDecode).
MaxFrames == 2

\* ---------------------------------------------------------- program constants

\* os.path.getsize(audio_file) < 1000
MinBytes == 1000

\* len(full_text.strip()) < 10
MinChars == 10

\* len(clean_text) < 10 in create_pdf_from_text
MinPdfChars == 10

Invs == 1..NInv

\* ------------------------------------------------------------------- texts

Whitespace == {" ", "\t", "\n"}

RECURSIVE LStrip(_)
LStrip(s) ==
    IF s # <<>> /\ Head(s) \in Whitespace THEN LStrip(Tail(s)) ELSE s

RECURSIVE RStrip(_)
RStrip(s) ==
    IF s # <<>> /\ s[Len(s)] \in Whitespace
    THEN RStrip(SubSeq(s, 1, Len(s) - 1))
    ELSE s

\* str.strip()
Strip(s) == RStrip(LStrip(s))

\* ' '.join(parts)
RECURSIVE Join(_)
Join(parts) ==
    IF parts = <<>> THEN <<>>
    ELSE IF Len(parts) = 1 THEN parts[1]
    ELSE parts[1] \o <<" ">> \o Join(Tail(parts))

\* The string transcribe_audio returns for a transcript below the floor.
Placeholder ==
    <<
       "N", "o", " ", "c", "l", "e", "a", "r", " ", "s", "p", "e", "e", "c", "h", " ",
       "d", "e", "t", "e", "c", "t", "e", "d", " ", "i", "n", " ", "t", "h", "e", " ",
       "v", "i", "d", "e", "o", ".", " ", "P", "l", "e", "a", "s", "e", " ", "e", "n",
       "s", "u", "r", "e", " ", "t", "h", "e", " ", "v", "i", "d", "e", "o", " ", "c",
       "o", "n", "t", "a", "i", "n", "s", " ", "a", "u", "d", "i", "b", "l", "e", " ",
       "s", "p", "e", "e", "c", "h", "." >>

\* The string create_pdf_from_text prints for a text below its floor.
PdfPlaceholder ==
    <<
       "N", "o", " ", "m", "e", "a", "n", "i", "n", "g", "f", "u", "l", " ", "t", "e",
       "x", "t", " ", "c", "o", "u", "l", "d", " ", "b", "e", " ", "e", "x", "t", "r",
       "a", "c", "t", "e", "d", " ", "f", "r", "o", "m", " ", "t", "h", "e", " ", "v",
       "i", "d", "e", "o", "." >>

\* Texts a recognizer result may carry: empty, blank, 4 and 5 characters, and
\* 10 characters of which the first is a space (9 after strip()).
T0 == <<>>
TBlank == <<" ">>
T4 == <<"a", "b", "c", "d">>
T5 == <<"e", "f", "g", "h", "i">>
T9 == <<" ", "j", "k", "l", "m", "n", "o", "p", "q", "r">>

Texts == {T0, TBlank, T4, T5, T9}

\* json.loads(rec.Result()): a dictionary that holds a 'text' key or does not.
Results == {[has |-> FALSE, text |-> T0]} \cup {[has |-> TRUE, text |-> t] : t \in Texts}

\* What one frame does to the recognizer: AcceptWaveform's answer and, when it
\* is True, the result of rec.Result(); a frame that finalizes nothing carries
\* the partial hypothesis, which the loop never reads.
FrameOutcomes ==
    {[final |-> TRUE, res |-> r] : r \in Results}
        \cup {[final |-> FALSE, res |-> [has |-> TRUE, text |-> T5]]}

\* Faulty variant: the result is appended without the test for a blank text.
AppendResult_NoBlankTest(tr, r) ==
    IF r.has THEN Append(tr, r.text) ELSE tr

\* if 'text' in result and result['text'].strip(): transcription.append(...)
AppendResult(tr, r) ==
    IF r.has /\ Strip(r.text) # <<>> THEN Append(tr, r.text) ELSE tr

\* Faulty variant: every frame's hypothesis is appended, finalized or not.
AcceptFrame_EveryFrame(tr, fr) == AppendResult(tr, fr.res)

\* The body of the while loop for one non-empty frame.
AcceptFrame(tr, fr) ==
    IF fr.final THEN AppendResult(tr, fr.res) ELSE tr

\* final_result = json.loads(rec.FinalResult()) and its append.
FlushResult(tr, r) == AppendResult(tr, r)

\* full_text = ' '.join(transcription)
FullText(tr) == Join(tr)

\* Faulty variant: the length is measured without strip().
ReturnText_Unstripped(full) ==
    IF Len(full) < MinChars THEN Placeholder ELSE full

\* The value transcribe_audio returns for full_text.
ReturnText(full) ==
    IF Len(Strip(full)) < MinChars THEN Placeholder ELSE full

\* The whole loop over the frames of a stream, then the flush.
RECURSIVE DecodeFrames(_, _)
DecodeFrames(tr, frames) ==
    IF frames = <<>> THEN tr
    ELSE DecodeFrames(AcceptFrame(tr, Head(frames)), Tail(frames))

Transcribe(stream) ==
    ReturnText(FullText(FlushResult(DecodeFrames(<<>>, stream.frames), stream.flush)))

\* ------------------------------------------------------------------- state

VARIABLES
    pc,             \* each invocation's position in its handler
    route,          \* "convert" or "upload": the handler the invocation runs
    req,            \* the request the invocation received
    audio_file,     \* the handler's local audio_file (NoPath for None)
    pdf_file,       \* the handler's local pdf_file
    video_path,     \* convert_upload's local video_path
    text,           \* the text transcribe_audio returned, with its provenance
    fs,             \* the working directory: path -> content of the file
    todo,           \* the paths the running cleanup block has still to visit
    err,            \* str(e) of the exception the handler caught
    resp,           \* the response the handler returned
    sent,           \* the attachment send_email delivered
    calls,          \* history: the stages the invocation invoked, in order
    written,        \* history: the paths the invocation wrote
    dpc,            \* SpecDecode: position in the recognizer loop
    fed,            \* SpecDecode: history of the frames read so far
    flushed,        \* SpecDecode: history, the result of rec.FinalResult()
    transcription,  \* SpecDecode: the list transcription
    full_text,      \* SpecDecode: the local full_text
    ret,            \* SpecDecode: the value transcribe_audio returned
    ypc,            \* SpecY2mate: position in download_via_y2mate
    youtube_url,    \* SpecY2mate: the argument youtube_url
    video_id,       \* SpecY2mate: the local video_id
    issued,         \* SpecY2mate: history, the remote requests and the open()
    analyze_response,   \* SpecY2mate: the answer to the analyze request
    k_value,        \* SpecY2mate: the local k_value
    convert_response,   \* SpecY2mate: the answer to the convert request
    download_response,  \* SpecY2mate: the answer to the download request
    yret,           \* SpecY2mate: the value download_via_y2mate returned
    yfail           \* SpecY2mate: history, the step that failed

locals == <<audio_file, pdf_file, video_path, text>>
hist == <<calls, written>>
decodeVars == <<dpc, fed, flushed, transcription, full_text, ret>>
y2Vars ==
    <<ypc, youtube_url, video_id, issued, analyze_response, k_value, convert_response,
      download_response, yret, yfail>>
vars ==
    <<pc, route, req, audio_file, pdf_file, video_path, text, fs, todo, err,
      resp, sent, calls, written, dpc, fed, flushed, transcription, full_text, ret,
      ypc, youtube_url, video_id, issued, analyze_response, k_value, convert_response,
      download_response, yret, yfail>>

\* ------------------------------------------------------------- file system

\* The fixed file names of app.py.
AudioMp3 == "audio.mp3"
UploadedAudio == "uploaded_audio.mp3"
WavFile == "temp_audio.wav"
PdfFile == "output.pdf"
UPLOAD_FOLDER == "uploads"

NoPath == "None"

\* A file's content: the invocation whose video it derives from (src), the
\* invocation that wrote it (by) and its size in bytes.
NoContent == [src |-> 0, by |-> 0, size |-> 0]

Exists(f) == f \in DOMAIN fs

GetSize(f) == fs[f].size

WriteFile(f, c) == (f :> c) @@ fs

RemoveFile(f) == [g \in DOMAIN fs \ {f} |-> fs[g]]

\* ---------------------------------------------------------------- requests

UrlNone == <<>>
UrlWatch == <<"https://www.", "youtube.com", "/watch?v=", "dQw4w9WgXcQ">>
UrlShort == <<"https://", "youtu.be", "/", "dQw4w9WgXcQ">>
UrlOther == <<"https://", "example.com", "/", "clip.mp4">>

Urls == {UrlNone, UrlWatch, UrlShort, UrlOther}

Emails == {"", "user@example.com"}

\* needle in url, for the needles the handler looks for
Contains(url, needle) == \E k \in 1..Len(url) : url[k] = needle

\* Faulty variant: "youtube.com" in video_url or "youtu.be", true of every URL.
IsYoutube_AlwaysTruthy(url) == Contains(url, "youtube.com") \/ TRUE

\* Faulty variant: the short host is forgotten.
IsYoutube_LongHostOnly(url) == Contains(url, "youtube.com")

\* is_youtube = "youtube.com" in video_url or "youtu.be" in video_url
IsYoutube(url) == Contains(url, "youtube.com") \/ Contains(url, "youtu.be")

ALLOWED_EXTENSIONS == {"mp4", "avi", "mov", "mkv", "webm", "flv", "3gp", "wmv"}

\* File names as their parts between dots; <<>> is the empty file name.
Filenames == {<<>>, <<"notes">>, <<"talk", "txt">>, <<"talk", "mp4">>, <<"demo", "MP4">>}

\* str.lower() on the extensions above
Lower(s) == IF s = "MP4" THEN "mp4" ELSE s

\* Faulty variant: any extension is let through.
allowed_file_AnyExtension(filename) == Len(filename) >= 2

\* '.' in filename and filename.rsplit('.', 1)[1].lower() in ALLOWED_EXTENSIONS
allowed_file(filename) ==
    Len(filename) >= 2 /\ Lower(filename[Len(filename)]) \in ALLOWED_EXTENSIONS

RECURSIVE DotJoin(_)
DotJoin(parts) ==
    IF Len(parts) = 1 THEN parts[1] ELSE parts[1] \o "." \o DotJoin(Tail(parts))

\* secure_filename(filename): the names above hold no unsafe character
secure_filename(filename) == DotJoin(filename)

\* os.path.join(UPLOAD_FOLDER, filename)
UploadPath(filename) == UPLOAD_FOLDER \o "/" \o secure_filename(filename)

ConvertRequests == [video_url : Urls, email : Emails]

UploadRequests == [email : Emails, has_video : BOOLEAN, filename : Filenames]

NoRequest == [none |-> TRUE]

\* Recognizer streams the handlers are run on: silence, and speech of ten
\* characters; SpecDecode covers the streams in general.
Streams ==
    { [frames |-> <<>>, flush |-> [has |-> TRUE, text |-> T0]],
      [frames |-> <<[final |-> TRUE, res |-> [has |-> TRUE, text |-> T5]]>>,
       flush |-> [has |-> TRUE, text |-> T4]] }

NoText == [src |-> 0, body |-> <<>>]

NoResponse == [code |-> 0, status |-> "", message |-> ""]

\* jsonify({"status": status, "message": message}), code
Response(code, status, message) ==
    [code |-> code, status |-> status, message |-> message]

\* An HTTP answer that has not arrived.
NoHttp == [status_code |-> 0]

\* No k_value, no video id: None.
NoKey == "None"

\* download_via_y2mate is not being followed step by step.
Y2Idle ==
    /\ ypc = "off"
    /\ youtube_url = <<>>
    /\ video_id = NoKey
    /\ issued = <<>>
    /\ analyze_response = NoHttp
    /\ k_value = NoKey
    /\ convert_response = NoHttp
    /\ download_response = NoHttp
    /\ yret = NoPath
    /\ yfail = [step |-> "", why |-> ""]

\* ------------------------------------------------------------------- init

Init ==
    /\ pc = [i \in Invs |-> "idle"]
    /\ route = [i \in Invs |-> ""]
    /\ req = [i \in Invs |-> NoRequest]
    /\ audio_file = [i \in Invs |-> NoPath]
    /\ pdf_file = [i \in Invs |-> NoPath]
    /\ video_path = [i \in Invs |-> NoPath]
    /\ text = [i \in Invs |-> NoText]
    /\ fs = <<>>
    /\ todo = [i \in Invs |-> <<>>]
    /\ err = [i \in Invs |-> ""]
    /\ resp = [i \in Invs |-> NoResponse]
    /\ sent = [i \in Invs |-> NoContent]
    /\ calls = [i \in Invs |-> <<>>]
    /\ written = [i \in Invs |-> {}]
    /\ dpc = "off"
    /\ fed = <<>>
    /\ flushed = [has |-> FALSE, text |-> T0]
    /\ transcription = <<>>
    /\ full_text = <<>>
    /\ ret = <<>>
    /\ Y2Idle

\* ----------------------------------------------------------------- helpers

Log(i, event) == calls' = [calls EXCEPT ![i] = Append(@, event)]

\* return jsonify(...), code: the handler is over.
Return(i, code, status, message) ==
    /\ resp' = [resp EXCEPT ![i] = Response(code, status, message)]
    /\ pc' = [pc EXCEPT ![i] = "done"]

\* An exception propagates to the handler's except Exception clause.
Raise(i, message) ==
    /\ err' = [err EXCEPT ![i] = message]
    /\ pc' = [pc EXCEPT ![i] = "except"]

Goto(i, label) == pc' = [pc EXCEPT ![i] = label]

DownloadFailed ==
    "Failed to download video. The video may be private, age-restricted, or temporarily unavailable. Please try a different video or use the Upload feature."

\* ------------------------------------------------------- /convert, the entry

\* convert_video up to the call of download_via_y2mate: the two rejections.
convert_video(i) ==
    /\ pc[i] = "idle"
    /\ \E r \in ConvertRequests :
        /\ route' = [route EXCEPT ![i] = "convert"]
        /\ req' = [req EXCEPT ![i] = r]
        /\ IF r.video_url = UrlNone \/ r.email = ""
           THEN /\ Return(i, 400, "error", "Video URL or email missing")
                /\ UNCHANGED calls
           ELSE IF ~IsYoutube(r.video_url)
           THEN /\ Return(i, 400, "error",
                          "Currently only YouTube URLs are supported. Please use the Upload Video feature for other videos.")
                /\ UNCHANGED calls
           ELSE /\ Goto(i, "y2mate")
                /\ Log(i, "download_via_y2mate")
                /\ UNCHANGED resp
    /\ UNCHANGED <<locals, fs, todo, err, sent, written, decodeVars, y2Vars>>

\* Faulty variant: the handler calls download_via_y2mate again after None.
HandleDownload_Retry(i, result) ==
    /\ audio_file' = [audio_file EXCEPT ![i] = result]
    /\ Goto(i, IF result = NoPath THEN "y2mate" ELSE "ffmpeg")
    /\ UNCHANGED resp

\* Faulty variant: the handler goes on to transcribe_audio whatever was returned.
HandleDownload_NoCheck(i, result) ==
    /\ audio_file' = [audio_file EXCEPT ![i] = result]
    /\ Goto(i, "ffmpeg")
    /\ UNCHANGED resp

\* audio_file = download_via_y2mate(video_url), then if not audio_file: the
\* handler answers 500 for None and goes on to transcribe_audio for a path.
HandleDownload(i, result) ==
    /\ audio_file' = [audio_file EXCEPT ![i] = result]
    /\ IF result = NoPath
       THEN Return(i, 500, "error", DownloadFailed)
       ELSE /\ Goto(i, "ffmpeg")
            /\ UNCHANGED resp

\* download_via_y2mate before it opens audio.mp3: the video id, the analyze and
\* convert requests and the download request. The remote side decides whether
\* the handshake gets through; a step that fails, times out or raises makes the
\* function return None.
y2mate_handshake(i) ==
    /\ pc[i] = "y2mate"
    /\ \E through \in BOOLEAN :
        IF through
        THEN /\ Goto(i, "y2mate_save")
             /\ UNCHANGED <<resp, calls, audio_file>>
        ELSE /\ HandleDownload(i, NoPath)
             /\ Log(i, "download:None")
    /\ UNCHANGED <<route, req, pdf_file, video_path, text, fs, todo, err, sent,
                   written, decodeVars, y2Vars>>

\* with open(audio_file, 'wb') as f: the chunks of the response are written to
\* audio.mp3. The stream may break after the file was opened (requests raises,
\* the function returns None) and the payload may be below the floor.
y2mate_save(i) ==
    /\ pc[i] = "y2mate_save"
    /\ \E size \in {MinBytes - 1, MinBytes}, broken \in BOOLEAN :
        /\ fs' = WriteFile(AudioMp3, [src |-> i, by |-> i, size |-> size])
        /\ written' = [written EXCEPT ![i] = @ \cup {AudioMp3}]
        /\ IF broken
           THEN /\ HandleDownload(i, NoPath)
                /\ Log(i, "download:None")
           ELSE /\ Goto(i, "y2mate_verify")
                /\ UNCHANGED <<resp, calls, audio_file>>
    /\ UNCHANGED <<route, req, pdf_file, video_path, text, todo, err, sent,
                   decodeVars, y2Vars>>

\* Faulty variant: a payload of exactly the floor is turned down.
VerifyDownload_AboveFloor(f) == Exists(f) /\ GetSize(f) > MinBytes

\* if not os.path.exists(audio_file) or os.path.getsize(audio_file) < 1000
VerifyDownload(f) == Exists(f) /\ GetSize(f) >= MinBytes

\* The size check of download_via_y2mate and its return value.
y2mate_verify(i) ==
    /\ pc[i] = "y2mate_verify"
    /\ IF VerifyDownload(AudioMp3)
       THEN /\ HandleDownload(i, AudioMp3)
            /\ Log(i, "download:path")
       ELSE /\ HandleDownload(i, NoPath)
            /\ Log(i, "download:None")
    /\ UNCHANGED <<route, req, pdf_file, video_path, text, fs, todo, err, sent,
                   written, decodeVars, y2Vars>>

\* ---------------------------------------------------------- transcribe_audio

\* Faulty variant: the converter's exit status is not looked at.
CheckReturnCode_Ignored(i, returncode) ==
    /\ Goto(i, "wave_open")
    /\ UNCHANGED err

\* if result.returncode != 0: raise Exception("Audio conversion failed")
CheckReturnCode(i, returncode) ==
    IF returncode # 0
    THEN Raise(i, "Audio conversion failed")
    ELSE /\ Goto(i, "wave_open")
         /\ UNCHANGED err

\* subprocess.run(['ffmpeg', '-i', audio_file, ..., '-y', wav_file]): the
\* converter reads the file audio_file names at this moment and writes
\* temp_audio.wav. It exits non-zero when the input is missing and may exit
\* non-zero on any input, leaving a truncated output or none.
transcribe_ffmpeg(i) ==
    /\ pc[i] = "ffmpeg"
    /\ \E returncode \in {0, 1}, truncated \in BOOLEAN :
        /\ returncode = 0 => Exists(audio_file[i]) /\ ~truncated
        /\ truncated => Exists(audio_file[i])
        /\ IF returncode = 0 \/ truncated
           THEN /\ fs' = WriteFile(WavFile,
                          [src |-> fs[audio_file[i]].src, by |-> i,
                           size |-> IF truncated THEN 0 ELSE MinBytes])
                /\ written' = [written EXCEPT ![i] = @ \cup {WavFile}]
           ELSE UNCHANGED <<fs, written>>
        /\ CheckReturnCode(i, returncode)
        /\ Log(i, IF returncode = 0 THEN "ffmpeg:0" ELSE "ffmpeg:1")
    /\ UNCHANGED <<route, req, locals, todo, resp, sent, decodeVars, y2Vars>>

\* wf = wave.open(wav_file, "rb"), the recognizer loop, rec.FinalResult() and
\* wf.close(): wave.open raises when temp_audio.wav is missing or truncated;
\* otherwise the frames of the file now under that name are decoded.
transcribe_decode(i) ==
    /\ pc[i] = "wave_open"
    /\ IF ~Exists(WavFile) \/ GetSize(WavFile) = 0
       THEN /\ Raise(i, "wave.open: cannot read temp_audio.wav")
            /\ UNCHANGED <<text, calls>>
       ELSE /\ \E stream \in Streams :
                 text' = [text EXCEPT ![i] =
                             [src |-> fs[WavFile].src, body |-> Transcribe(stream)]]
            /\ Log(i, "recognizer")
            /\ Goto(i, "wav_exists")
            /\ UNCHANGED err
    /\ UNCHANGED <<route, req, audio_file, pdf_file, video_path, fs, todo, resp, sent,
                   written, decodeVars, y2Vars>>

\* if os.path.exists(wav_file): ... ; without the file, transcribe_audio
\* returns the text to the handler.
transcribe_wav_exists(i) ==
    /\ pc[i] = "wav_exists"
    /\ Goto(i, IF Exists(WavFile) THEN "wav_remove" ELSE "pdf")
    /\ UNCHANGED <<route, req, locals, fs, todo, err, resp, sent, hist, decodeVars, y2Vars>>

\* os.remove(wav_file): raises when the file was removed since the test.
transcribe_wav_remove(i) ==
    /\ pc[i] = "wav_remove"
    /\ IF Exists(WavFile)
       THEN /\ fs' = RemoveFile(WavFile)
            /\ Goto(i, "pdf")
            /\ UNCHANGED err
       ELSE /\ Raise(i, "No such file or directory: temp_audio.wav")
            /\ UNCHANGED fs
    /\ UNCHANGED <<route, req, locals, todo, resp, sent, hist, decodeVars, y2Vars>>

\* ------------------------------------------------- create_pdf_from_text

\* clean_text = text.replace('\x00', '').strip(), replaced by the fixed
\* sentence when it is empty or shorter than 10 characters.
CleanText(t) ==
    LET clean_text == Strip(SelectSeq(t, LAMBDA c : c # "NUL"))
    IN  IF clean_text = <<>> \/ Len(clean_text) < MinPdfChars
        THEN PdfPlaceholder
        ELSE clean_text

\* pdf_file = create_pdf_from_text(text, title): doc.build writes output.pdf
\* or raises, in which case the handler's pdf_file stays None.
create_pdf_from_text(i) ==
    /\ pc[i] = "pdf"
    /\ \E built \in BOOLEAN, partial \in BOOLEAN :
        /\ built => ~partial
        /\ IF built \/ partial
           THEN /\ fs' = WriteFile(PdfFile,
                          [src |-> text[i].src, by |-> i,
                           size |-> IF built THEN MinBytes ELSE 0,
                           body |-> CleanText(text[i].body)])
                /\ written' = [written EXCEPT ![i] = @ \cup {PdfFile}]
           ELSE UNCHANGED <<fs, written>>
        /\ IF built
           THEN /\ pdf_file' = [pdf_file EXCEPT ![i] = PdfFile]
                /\ Goto(i, "email")
                /\ UNCHANGED err
           ELSE /\ Raise(i, "PDF creation failed")
                /\ UNCHANGED pdf_file
    /\ Log(i, "create_pdf_from_text")
    /\ UNCHANGED <<route, req, audio_file, video_path, text, todo, resp, sent,
                   decodeVars, y2Vars>>

\* -------------------------------------------------------------- send_email

\* What yag.send attaches when output.pdf is not there to be read.
NoAttachment == [src |-> 0, by |-> 0, size |-> 0, missing |-> TRUE]

\* The paths the cleanup after a success visits, in the handler's order.
CleanupPaths(i) ==
    IF route[i] = "upload"
    THEN <<video_path[i], audio_file[i], pdf_file[i]>>
    ELSE <<audio_file[i], pdf_file[i]>>

\* Faulty variant: a send that raised is taken for a send that completed.
send_email_Swallowed(i) ==
    /\ pc[i] = "email"
    /\ \E delivered \in BOOLEAN :
        /\ sent' = [sent EXCEPT ![i] =
                       IF ~delivered THEN @
                       ELSE IF Exists(pdf_file[i]) THEN fs[pdf_file[i]] ELSE NoAttachment]
        /\ todo' = [todo EXCEPT ![i] = CleanupPaths(i)]
        /\ Goto(i, "cleanup_exists")
        /\ UNCHANGED err
    /\ Log(i, "send_email")
    /\ UNCHANGED <<route, req, locals, fs, resp, written, decodeVars, y2Vars>>

\* send_email(email, pdf_file, ...): yag.send reads the file pdf_file names at
\* this moment and delivers it, or raises (SMTP, authentication, network).
send_email(i) ==
    /\ pc[i] = "email"
    /\ \E delivered \in BOOLEAN :
        IF delivered
        THEN /\ sent' = [sent EXCEPT ![i] =
                            IF Exists(pdf_file[i]) THEN fs[pdf_file[i]] ELSE NoAttachment]
             /\ todo' = [todo EXCEPT ![i] = CleanupPaths(i)]
             /\ Goto(i, "cleanup_exists")
             /\ UNCHANGED err
        ELSE /\ Raise(i, "SMTP error")
             /\ UNCHANGED <<sent, todo>>
    /\ Log(i, "send_email")
    /\ UNCHANGED <<route, req, locals, fs, resp, written, decodeVars, y2Vars>>

\* ------------------------------------------------- the handlers' cleanup

\* Faulty variant: after the last path the handler does not return.
cleanup_exists_NoReturn(i) ==
    /\ pc[i] = "cleanup_exists"
    /\ IF todo[i] = <<>>
       THEN UNCHANGED <<pc, resp, todo>>
       ELSE IF Exists(Head(todo[i]))
       THEN /\ Goto(i, "cleanup_remove")
            /\ UNCHANGED <<todo, resp>>
       ELSE /\ todo' = [todo EXCEPT ![i] = Tail(@)]
            /\ UNCHANGED <<pc, resp>>
    /\ UNCHANGED <<route, req, locals, fs, err, sent, hist, decodeVars, y2Vars>>

\* if os.path.exists(path): of the cleanup after a success; after the last
\* path the handler returns the success response.
cleanup_exists(i) ==
    /\ pc[i] = "cleanup_exists"
    /\ IF todo[i] = <<>>
       THEN /\ Return(i, 200, "success",
                      "PDF sent to email successfully! Check your inbox in 1-2 minutes.")
            /\ UNCHANGED todo
       ELSE IF Exists(Head(todo[i]))
       THEN /\ Goto(i, "cleanup_remove")
            /\ UNCHANGED <<todo, resp>>
       ELSE /\ todo' = [todo EXCEPT ![i] = Tail(@)]
            /\ UNCHANGED <<pc, resp>>
    /\ UNCHANGED <<route, req, locals, fs, err, sent, hist, decodeVars, y2Vars>>

\* os.remove(path) of the cleanup after a success: raises into the handler's
\* except clause when the file was removed since the test.
cleanup_remove(i) ==
    /\ pc[i] = "cleanup_remove"
    /\ IF Exists(Head(todo[i]))
       THEN /\ fs' = RemoveFile(Head(todo[i]))
            /\ todo' = [todo EXCEPT ![i] = Tail(@)]
            /\ Goto(i, "cleanup_exists")
            /\ UNCHANGED err
       ELSE /\ Raise(i, "No such file or directory")
            /\ UNCHANGED <<fs, todo>>
    /\ UNCHANGED <<route, req, locals, resp, sent, hist, decodeVars, y2Vars>>

\* The paths the cleanup on error visits: those of the handler's locals that
\* are not None (if audio_file and ..., if pdf_file and ...).
ErrorCleanupPaths(i) == SelectSeq(CleanupPaths(i), LAMBDA p : p # NoPath)

\* except Exception as e: error_msg = str(e), then the cleanup on error.
handler_except(i) ==
    /\ pc[i] = "except"
    /\ todo' = [todo EXCEPT ![i] = ErrorCleanupPaths(i)]
    /\ Goto(i, "error_exists")
    /\ UNCHANGED <<route, req, locals, fs, err, resp, sent, hist, decodeVars, y2Vars>>

\* return jsonify({"status": "error", "message": f"Processing failed: ..."}), 500
ReturnFailed(i) == Return(i, 500, "error", "Processing failed: " \o err[i])

\* The test of the cleanup on error; after the last path the handler returns
\* the error response.
error_exists(i) ==
    /\ pc[i] = "error_exists"
    /\ IF todo[i] = <<>>
       THEN /\ ReturnFailed(i)
            /\ UNCHANGED todo
       ELSE IF Exists(Head(todo[i]))
       THEN /\ Goto(i, "error_remove")
            /\ UNCHANGED <<todo, resp>>
       ELSE /\ todo' = [todo EXCEPT ![i] = Tail(@)]
            /\ UNCHANGED <<pc, resp>>
    /\ UNCHANGED <<route, req, locals, fs, err, sent, hist, decodeVars, y2Vars>>

\* os.remove(path) of the cleanup on error: an exception here is swallowed
\* (except: pass), the paths left are not visited, and the handler returns.
error_remove(i) ==
    /\ pc[i] = "error_remove"
    /\ IF Exists(Head(todo[i]))
       THEN /\ fs' = RemoveFile(Head(todo[i]))
            /\ todo' = [todo EXCEPT ![i] = Tail(@)]
            /\ Goto(i, "error_exists")
            /\ UNCHANGED resp
       ELSE /\ ReturnFailed(i)
            /\ UNCHANGED <<fs, todo>>
    /\ UNCHANGED <<route, req, locals, err, sent, hist, decodeVars, y2Vars>>

\* ------------------------------------------------------- /convert-upload

\* convert_upload up to the try block: the four rejections.
convert_upload(i) ==
    /\ pc[i] = "idle"
    /\ \E r \in UploadRequests :
        /\ route' = [route EXCEPT ![i] = "upload"]
        /\ req' = [req EXCEPT ![i] = r]
        /\ IF r.email = ""
           THEN Return(i, 400, "error", "Email missing")
           ELSE IF ~r.has_video
           THEN Return(i, 400, "error", "No video file uploaded")
           ELSE IF r.filename = <<>>
           THEN Return(i, 400, "error", "No video file selected")
           ELSE IF ~allowed_file(r.filename)
           THEN Return(i, 400, "error",
                       "Invalid file type. Supported: MP4, AVI, MOV, MKV, WEBM, FLV, 3GP, WMV")
           ELSE /\ Goto(i, "save")
                /\ UNCHANGED resp
    /\ UNCHANGED <<locals, fs, todo, err, sent, hist, decodeVars, y2Vars>>

\* Faulty variant: the saved upload is handed to the remote acquisition.
upload_save_ThenAcquire(i) ==
    /\ pc[i] = "save"
    /\ LET path == UploadPath(req[i].filename) IN
        /\ video_path' = [video_path EXCEPT ![i] = path]
        /\ fs' = WriteFile(path, [src |-> i, by |-> i, size |-> MinBytes])
        /\ written' = [written EXCEPT ![i] = @ \cup {path}]
    /\ Goto(i, "y2mate")
    /\ UNCHANGED <<route, req, audio_file, pdf_file, text, todo, err, resp, sent, calls,
                   decodeVars, y2Vars>>

\* video_file.save(video_path) and os.path.getsize(video_path)
upload_save(i) ==
    /\ pc[i] = "save"
    /\ LET path == UploadPath(req[i].filename) IN
        /\ video_path' = [video_path EXCEPT ![i] = path]
        /\ fs' = WriteFile(path, [src |-> i, by |-> i, size |-> MinBytes])
        /\ written' = [written EXCEPT ![i] = @ \cup {path}]
    /\ Goto(i, "extract")
    /\ UNCHANGED <<route, req, audio_file, pdf_file, text, todo, err, resp, sent, calls,
                   decodeVars, y2Vars>>

\* if result.returncode != 0: raise Exception("Failed to extract audio ...")
CheckExtractCode(i, returncode) ==
    IF returncode # 0
    THEN Raise(i, "Failed to extract audio from video")
    ELSE /\ Goto(i, "check_audio")
         /\ UNCHANGED err

\* audio_file = "uploaded_audio.mp3", then ffmpeg extracts the audio of the
\* file video_path names at this moment; a video without sound gives an empty
\* output.
upload_extract(i) ==
    /\ pc[i] = "extract"
    /\ audio_file' = [audio_file EXCEPT ![i] = UploadedAudio]
    /\ \E returncode \in {0, 1}, size \in {0, MinBytes} :
        /\ returncode = 0 => Exists(video_path[i])
        /\ returncode # 0 => size = 0
        /\ IF returncode = 0
           THEN /\ fs' = WriteFile(UploadedAudio,
                          [src |-> fs[video_path[i]].src, by |-> i, size |-> size])
                /\ written' = [written EXCEPT ![i] = @ \cup {UploadedAudio}]
           ELSE UNCHANGED <<fs, written>>
        /\ CheckExtractCode(i, returncode)
        /\ Log(i, IF returncode = 0 THEN "extract:0" ELSE "extract:1")
    /\ UNCHANGED <<route, req, pdf_file, video_path, text, todo, resp, sent, decodeVars, y2Vars>>

\* if not os.path.exists(audio_file) or os.path.getsize(audio_file) == 0
AudioMissing(f) == ~Exists(f) \/ GetSize(f) = 0

\* The test for an extracted audio, before transcribe_audio(audio_file).
upload_check_audio(i) ==
    /\ pc[i] = "check_audio"
    /\ IF AudioMissing(audio_file[i])
       THEN /\ Raise(i, "No audio found in the video. Please upload a video with speech.")
            /\ Log(i, "audio:missing")
       ELSE /\ Goto(i, "ffmpeg")
            /\ Log(i, "audio:found")
            /\ UNCHANGED err
    /\ UNCHANGED <<route, req, locals, fs, todo, resp, sent, written, decodeVars, y2Vars>>

\* ------------------------------------------------------------ specification

Step(i) ==
    \/ convert_video(i)
    \/ y2mate_handshake(i)
    \/ y2mate_save(i)
    \/ y2mate_verify(i)
    \/ convert_upload(i)
    \/ upload_save(i)
    \/ upload_extract(i)
    \/ upload_check_audio(i)
    \/ transcribe_ffmpeg(i)
    \/ transcribe_decode(i)
    \/ transcribe_wav_exists(i)
    \/ transcribe_wav_remove(i)
    \/ create_pdf_from_text(i)
    \/ send_email(i)
    \/ cleanup_exists(i)
    \/ cleanup_remove(i)
    \/ handler_except(i)
    \/ error_exists(i)
    \/ error_remove(i)

Next == \E i \in Invs : Step(i)

Spec == Init /\ [][Next]_vars

\* ------------------------------------------- the recognizer loop, by frame

pipelineVars ==
    <<pc, route, req, audio_file, pdf_file, video_path, text, fs, todo, err, resp,
      sent, calls, written>>

\* transcription = [] before the loop, on an opened WAV file.
InitDecode ==
    /\ pc = [i \in Invs |-> "idle"]
    /\ route = [i \in Invs |-> ""]
    /\ req = [i \in Invs |-> NoRequest]
    /\ audio_file = [i \in Invs |-> NoPath]
    /\ pdf_file = [i \in Invs |-> NoPath]
    /\ video_path = [i \in Invs |-> NoPath]
    /\ text = [i \in Invs |-> NoText]
    /\ fs = <<>>
    /\ todo = [i \in Invs |-> <<>>]
    /\ err = [i \in Invs |-> ""]
    /\ resp = [i \in Invs |-> NoResponse]
    /\ sent = [i \in Invs |-> NoContent]
    /\ calls = [i \in Invs |-> <<>>]
    /\ written = [i \in Invs |-> {}]
    /\ dpc = "loop"
    /\ fed = <<>>
    /\ flushed = [has |-> FALSE, text |-> T0]
    /\ transcription = <<>>
    /\ full_text = <<>>
    /\ ret = <<>>
    /\ Y2Idle

\* data = wf.readframes(4000) with len(data) > 0, and the loop's body.
decode_frame ==
    /\ dpc = "loop"
    /\ Len(fed) < MaxFrames
    /\ \E fr \in FrameOutcomes :
        /\ transcription' = AcceptFrame(transcription, fr)
        /\ fed' = Append(fed, fr)
    /\ UNCHANGED <<dpc, flushed, full_text, ret, pipelineVars, y2Vars>>

\* len(data) == 0: break, then final_result = json.loads(rec.FinalResult()).
decode_flush ==
    /\ dpc = "loop"
    /\ \E r \in Results :
        /\ transcription' = FlushResult(transcription, r)
        /\ flushed' = r
    /\ dpc' = "join"
    /\ UNCHANGED <<fed, full_text, ret, pipelineVars, y2Vars>>

\* full_text = ' '.join(transcription) and the return statement.
decode_return ==
    /\ dpc = "join"
    /\ full_text' = FullText(transcription)
    /\ ret' = ReturnText(FullText(transcription))
    /\ dpc' = "returned"
    /\ UNCHANGED <<fed, flushed, transcription, pipelineVars, y2Vars>>

NextDecode ==
    \/ decode_frame
    \/ decode_flush
    \/ decode_return

SpecDecode == InitDecode /\ [][NextDecode]_vars

\* --------------------------------------- download_via_y2mate, step by step

pipelineVarsButFs ==
    <<pc, route, req, audio_file, pdf_file, video_path, text, todo, err, resp, sent,
      calls, written>>

\* A YouTube URL that holds no video id.
UrlNoId == <<"https://www.", "youtube.com", "/", "feed">>

Y2Urls == {UrlWatch, UrlShort, UrlNoId}

\* The tokens that are eleven characters of [0-9A-Za-z_-].
IdTokens == {"dQw4w9WgXcQ"}

\* The three patterns of extract_video_id, each as the tokens it accepts right
\* before the id: (?:v=|\/), (?:embed\/) and (?:watch\?v=).
Patterns == << {"/watch?v=", "/embed/", "/"}, {"/embed/"}, {"/watch?v="} >>

\* re.search(pattern, url): the positions at which the pattern matches.
Matches(pattern, url) ==
    {k \in 2..Len(url) : url[k] \in IdTokens /\ url[k - 1] \in pattern}

\* extract_video_id: group 1 of the first pattern that matches, else None.
extract_video_id(url) ==
    LET hits == {n \in 1..Len(Patterns) : Matches(Patterns[n], url) # {}}
    IN  IF hits = {} THEN NoKey
        ELSE LET n == CHOOSE x \in hits : \A y \in hits : x <= y
                 at == Matches(Patterns[n], url)
             IN  url[CHOOSE k \in at : \A m \in at : k <= m]

\* The 'k' an entry of links lacks: reading it raises KeyError.
KeyMissing == "KeyError"

\* A dictionary of formats, in the order the answer lists them.
NoFormats == [present |-> FALSE, entries |-> <<>>]

Formats(entries) == [present |-> TRUE, entries |-> entries]

Mp3Lists ==
    { NoFormats,
      Formats(<<>>),
      Formats(<<[name |-> "mp3128", k |-> "k-mp3-128"]>>),
      Formats(<<[name |-> "mp3320", k |-> "k-mp3-320"],
                [name |-> "mp3128", k |-> "k-mp3-128"]>>),
      Formats(<<[name |-> "mp3320", k |-> "k-mp3-320"],
                [name |-> "mp364", k |-> "k-mp3-64"]>>),
      Formats(<<[name |-> "mp3320", k |-> ""],
                [name |-> "mp364", k |-> "k-mp3-64"]>>),
      Formats(<<[name |-> "mp3320", k |-> KeyMissing]>>) }

Mp4Lists ==
    { NoFormats,
      Formats(<<>>),
      Formats(<<[name |-> "137", k |-> "k-mp4-1080"],
                [name |-> "18", k |-> "k-mp4-360"]>>),
      Formats(<<[name |-> "auto", k |-> KeyMissing]>>) }

\* analyze_result.get('links', {})
LinkSets == [mp3 : Mp3Lists, mp4 : Mp4Lists]

\* What a remote request may come to: requests.Timeout, another exception, or a
\* response with its status code.
StatusCodes == {200, 403}

AnalyzeResponses ==
    [status_code : StatusCodes, status : {"ok", "error"}, links : LinkSets]

\* convert_result.get('dlink'): None, empty or a link.
DLinks == {NoKey, "", "https://dl.y2mate.example/file"}

ConvertResponses == [status_code : StatusCodes, status : {"ok", "error"}, dlink : DLinks]

DownloadResponses == [status_code : StatusCodes]

Exceptions == {"Timeout", "Exception"}

\* not k_value, not download_url
Falsy(v) == v \in {NoKey, ""}

\* Faulty variant: the status code is not looked at.
StatusOk_Ignored(response) == TRUE

\* if response.status_code != 200: return None
StatusOk(response) == response.status_code = 200

\* if result.get('status') != 'ok': return None
ResultOk(result) == result.status = "ok"

\* if 'mp3' in links: mp3128 when it is there, else the first entry.
SelectMp3(links) ==
    LET mp3_links == links.mp3.entries
        at128 == {n \in 1..Len(mp3_links) : mp3_links[n].name = "mp3128"}
    IN  IF ~links.mp3.present THEN NoKey
        ELSE IF at128 # {} THEN mp3_links[CHOOSE n \in at128 : TRUE].k
        ELSE IF mp3_links # <<>> THEN mp3_links[1].k
        ELSE NoKey

\* Faulty variant: the MP4 fallback is taken although an MP3 key was found.
SelectFormat_Mp4First(links) ==
    IF links.mp4.present /\ links.mp4.entries # <<>>
    THEN links.mp4.entries[1].k
    ELSE SelectMp3(links)

\* The format selection: the MP3 key, else the first MP4 entry's key when no
\* MP3 key was found; KeyMissing when the entry read holds no 'k'.
SelectFormat(links) ==
    LET k_mp3 == SelectMp3(links)
    IN  IF k_mp3 = KeyMissing THEN KeyMissing
        ELSE IF Falsy(k_mp3) /\ links.mp4.present /\ links.mp4.entries # <<>>
        THEN links.mp4.entries[1].k
        ELSE k_mp3

NoFailure == [step |-> "", why |-> ""]

\* return None at a failed test of the function's body.
ReturnNone(step, why) ==
    /\ ypc' = "returned"
    /\ yret' = NoPath
    /\ yfail' = [step |-> step, why |-> why]

\* Faulty variant: only requests.Timeout is caught.
Except_TimeoutOnly(step, exception) ==
    /\ ypc' = IF exception = "Timeout" THEN "returned" ELSE "propagated"
    /\ yret' = NoPath
    /\ yfail' = [step |-> step, why |-> exception]

\* except requests.Timeout / except Exception: both return None.
Except(step, exception) ==
    /\ ypc' = "returned"
    /\ yret' = NoPath
    /\ yfail' = [step |-> step, why |-> exception]

InitY2mate ==
    /\ pc = [i \in Invs |-> "idle"]
    /\ route = [i \in Invs |-> ""]
    /\ req = [i \in Invs |-> NoRequest]
    /\ audio_file = [i \in Invs |-> NoPath]
    /\ pdf_file = [i \in Invs |-> NoPath]
    /\ video_path = [i \in Invs |-> NoPath]
    /\ text = [i \in Invs |-> NoText]
    /\ fs = <<>>
    /\ todo = [i \in Invs |-> <<>>]
    /\ err = [i \in Invs |-> ""]
    /\ resp = [i \in Invs |-> NoResponse]
    /\ sent = [i \in Invs |-> NoContent]
    /\ calls = [i \in Invs |-> <<>>]
    /\ written = [i \in Invs |-> {}]
    /\ dpc = "off"
    /\ fed = <<>>
    /\ flushed = [has |-> FALSE, text |-> T0]
    /\ transcription = <<>>
    /\ full_text = <<>>
    /\ ret = <<>>
    /\ ypc = "start"
    /\ youtube_url \in Y2Urls
    /\ video_id = NoKey
    /\ issued = <<>>
    /\ analyze_response = NoHttp
    /\ k_value = NoKey
    /\ convert_response = NoHttp
    /\ download_response = NoHttp
    /\ yret = NoPath
    /\ yfail = NoFailure

\* video_id = extract_video_id(youtube_url); if not video_id: return None
y2_video_id ==
    /\ ypc = "start"
    /\ video_id' = extract_video_id(youtube_url)
    /\ IF extract_video_id(youtube_url) = NoKey
       THEN ReturnNone("video_id", "none")
       ELSE /\ ypc' = "analyze"
            /\ UNCHANGED <<yret, yfail>>
    /\ UNCHANGED <<youtube_url, issued, analyze_response, k_value, convert_response,
                   download_response, fs, pipelineVarsButFs, decodeVars>>

\* Step 1: requests.post(analyze_url, ...), the status code, the JSON status.
y2_analyze ==
    /\ ypc = "analyze"
    /\ issued' = Append(issued, "analyze")
    /\ \/ \E exception \in Exceptions :
            /\ Except("analyze", exception)
            /\ UNCHANGED analyze_response
       \/ \E response \in AnalyzeResponses :
            /\ analyze_response' = response
            /\ IF ~StatusOk(response) THEN ReturnNone("analyze", "status_code")
               ELSE IF ~ResultOk(response) THEN ReturnNone("analyze", "status")
               ELSE /\ ypc' = "select"
                    /\ UNCHANGED <<yret, yfail>>
    /\ UNCHANGED <<youtube_url, video_id, k_value, convert_response, download_response,
                   fs, pipelineVarsButFs, decodeVars>>

\* Step 2: the format selection; if not k_value: return None.
y2_select ==
    /\ ypc = "select"
    /\ LET chosen == SelectFormat(analyze_response.links) IN
        IF chosen = KeyMissing
        THEN /\ Except("select", "Exception")
             /\ UNCHANGED k_value
        ELSE /\ k_value' = chosen
             /\ IF Falsy(chosen) THEN ReturnNone("select", "no format")
                ELSE /\ ypc' = "convert"
                     /\ UNCHANGED <<yret, yfail>>
    /\ UNCHANGED <<youtube_url, video_id, issued, analyze_response, convert_response,
                   download_response, fs, pipelineVarsButFs, decodeVars>>

\* Step 3: requests.post(convert_url, ...), the status code, the JSON status,
\* the download link.
y2_convert ==
    /\ ypc = "convert"
    /\ issued' = Append(issued, "convert")
    /\ \/ \E exception \in Exceptions :
            /\ Except("convert", exception)
            /\ UNCHANGED convert_response
       \/ \E response \in ConvertResponses :
            /\ convert_response' = response
            /\ IF ~StatusOk(response) THEN ReturnNone("convert", "status_code")
               ELSE IF ~ResultOk(response) THEN ReturnNone("convert", "status")
               ELSE IF Falsy(response.dlink) THEN ReturnNone("convert", "no dlink")
               ELSE /\ ypc' = "download"
                    /\ UNCHANGED <<yret, yfail>>
    /\ UNCHANGED <<youtube_url, video_id, analyze_response, k_value, download_response,
                   fs, pipelineVarsButFs, decodeVars>>

\* Step 4: requests.get(download_url, stream=True, ...) and its status code.
y2_download ==
    /\ ypc = "download"
    /\ issued' = Append(issued, "download")
    /\ \/ \E exception \in Exceptions :
            /\ Except("download", exception)
            /\ UNCHANGED download_response
       \/ \E response \in DownloadResponses :
            /\ download_response' = response
            /\ IF ~StatusOk(response) THEN ReturnNone("download", "status_code")
               ELSE /\ ypc' = "save"
                    /\ UNCHANGED <<yret, yfail>>
    /\ UNCHANGED <<youtube_url, video_id, analyze_response, k_value, convert_response,
                   fs, pipelineVarsButFs, decodeVars>>

\* The payloads a download may bring: none, one byte below the floor, the
\* floor, one byte above it.
PayloadSizes == {0, MinBytes - 1, MinBytes, MinBytes + 1}

\* with open(audio_file, 'wb') as f: the chunks are written; the stream may
\* raise after the file was opened.
y2_save ==
    /\ ypc = "save"
    /\ issued' = Append(issued, "open")
    /\ \E size \in PayloadSizes :
        /\ fs' = WriteFile(AudioMp3, [src |-> 1, by |-> 1, size |-> size])
        /\ \/ \E exception \in Exceptions : Except("save", exception)
           \/ /\ ypc' = "verify"
              /\ UNCHANGED <<yret, yfail>>
    /\ UNCHANGED <<youtube_url, video_id, analyze_response, k_value, convert_response,
                   download_response, pipelineVarsButFs, decodeVars>>

\* The size test and return audio_file.
y2_verify ==
    /\ ypc = "verify"
    /\ IF VerifyDownload(AudioMp3)
       THEN /\ ypc' = "returned"
            /\ yret' = AudioMp3
            /\ UNCHANGED yfail
       ELSE ReturnNone("verify", "too small")
    /\ UNCHANGED <<youtube_url, video_id, issued, analyze_response, k_value,
                   convert_response, download_response, fs, pipelineVarsButFs,
                   decodeVars>>

NextY2mate ==
    \/ y2_video_id
    \/ y2_analyze
    \/ y2_select
    \/ y2_convert
    \/ y2_download
    \/ y2_save
    \/ y2_verify

SpecY2mate == InitY2mate /\ [][NextY2mate]_vars

\* ------------------------------------------------------------- termination

\* A run is either the handlers' invocations or the recognizer loop of one call
\* of transcribe_audio, followed frame by frame.
InitLive == Init \/ InitDecode

NextLive ==
    \/ dpc = "off" /\ Next
    \/ dpc # "off" /\ NextDecode

\* Every external call returns or raises, so an invocation that can take a step
\* takes one; the recognizer is given every frame of a finite stream.
FairLive ==
    /\ \A i \in Invs : WF_vars(dpc = "off" /\ Step(i))
    /\ WF_vars(dpc # "off" /\ NextDecode)

SpecLive == InitLive /\ [][NextLive]_vars /\ FairLive

\* ------------------------------------------------------------------ claims

Has(i, event) == \E k \in 1..Len(calls[i]) : calls[i][k] = event

Last(seq) == seq[Len(seq)]

InFlight(i) == pc[i] \notin {"idle", "done"}

\* The positions of the handler's except clause, and its return.
Failing == {"except", "error_exists", "error_remove", "done"}

\* C1: once a handler has returned, no file that its invocation wrote is still
\* on disk, whatever the exit path.
C1_CleanupOnEveryExit ==
    \A i \in Invs :
        pc[i] = "done" => \A f \in DOMAIN fs : ~(f \in written[i] /\ fs[f].by = i)

\* C2: two invocations in flight at the same time never write the same path.
C2_DistinctTemporaryNames ==
    \A i, j \in Invs :
        (i # j /\ InFlight(i) /\ InFlight(j)) => written[i] \cap written[j] = {}

\* C3: the text an invocation decodes and the document it delivers derive from
\* that invocation's own video, and the document is the one it rendered.
C3_NonInterference ==
    \A i \in Invs :
        /\ text[i] # NoText => text[i].src = i
        /\ sent[i] \notin {NoContent, NoAttachment} => sent[i].src = i /\ sent[i].by = i

\* A URL of a page that is not the captioned platform's: it is given, and names
\* neither of the platform's hosts.
Unrecognized(url) ==
    url # <<>> /\ \A k \in 1..Len(url) : url[k] \notin {"youtube.com", "youtu.be"}

Recognized(url) ==
    \E k \in 1..Len(url) : url[k] \in {"youtube.com", "youtu.be"}

\* A /convert request that passed the test for its two fields.
ConvertOf(i) == route[i] = "convert" /\ req[i].video_url # <<>> /\ req[i].email # ""

\* C4, as the claim states it: a /convert invocation on a URL that is not
\* recognized attempts the acquisition of the media.
C4_UnrecognizedUrlAcquires ==
    \A i \in Invs :
        (ConvertOf(i) /\ Unrecognized(req[i].video_url) /\ pc[i] = "done")
            => Has(i, "download_via_y2mate")

\* C4, amended: a /convert invocation on a URL that is not recognized ends at
\* once with the 400 response, having invoked no stage and written no file.
C4_UnrecognizedUrlRejected ==
    \A i \in Invs :
        (ConvertOf(i) /\ Unrecognized(req[i].video_url))
            => /\ pc[i] = "done"
               /\ resp[i].code = 400
               /\ resp[i].status = "error"
               /\ calls[i] = <<>>
               /\ written[i] = {}

C4_Witness ==
    \E i \in Invs :
        /\ ConvertOf(i)
        /\ req[i].video_url = UrlOther
        /\ pc[i] = "done"
        /\ resp[i].code = 400

\* The stages that follow the acquisition in /convert.
AfterAcquisition ==
    {"ffmpeg:0", "ffmpeg:1", "recognizer", "create_pdf_from_text", "send_email"}

\* Stage events of calls[i] happen only after the event first.
OnlyAfter(i, events, first) ==
    \A k \in 1..Len(calls[i]) :
        calls[i][k] \in events => \E m \in 1..(k - 1) : calls[i][m] = first

\* C5, as the claim states it: the acquisition of a recognized URL is invoked
\* only after a caption attempt that failed.
C5_CaptionAttemptFirst ==
    \A i \in Invs :
        OnlyAfter(i, {"download_via_y2mate"}, "caption_attempt:failed")

\* C5, amended: a /convert invocation on a recognized URL makes no caption
\* attempt; the first stage it invokes is the acquisition, and conversion and
\* decoding are invoked only after the acquisition returned a path.
C5_RecognizedUrlAcquiresFirst ==
    \A i \in Invs :
        (ConvertOf(i) /\ Recognized(req[i].video_url))
            => /\ calls[i] # <<>>
               /\ calls[i][1] = "download_via_y2mate"
               /\ OnlyAfter(i, {"ffmpeg:0", "ffmpeg:1", "recognizer"}, "download:path")

C5_Witness ==
    \E i \in Invs :
        /\ ConvertOf(i)
        /\ req[i].video_url = UrlShort
        /\ Has(i, "recognizer")

\* C6: when the acquisition returned no path the handler has returned the 500
\* response for a failed download and invoked no later stage; in /convert the
\* later stages are invoked only after the acquisition returned a path.
C6_AcquisitionFailureIsTerminal ==
    \A i \in Invs :
        /\ Has(i, "download:None")
            => /\ pc[i] = "done"
               /\ resp[i] = Response(500, "error", DownloadFailed)
               /\ \A k \in 1..Len(calls[i]) : calls[i][k] \notin AfterAcquisition
        /\ route[i] = "convert" => OnlyAfter(i, AfterAcquisition, "download:path")

C6_Witness ==
    \E i \in Invs : Has(i, "download:None") /\ pc[i] = "done" /\ AudioMp3 \in written[i]

\* The message each failure of the normalization raises.
ConversionFailure ==
    [e \in {"ffmpeg:1", "extract:1", "audio:missing"} |->
        CASE e = "ffmpeg:1" -> "Audio conversion failed"
          [] e = "extract:1" -> "Failed to extract audio from video"
          [] e = "audio:missing" ->
                "No audio found in the video. Please upload a video with speech."]

\* C7: after a failed normalization (a converter exit status other than zero,
\* or no extracted audio) the invocation is in its failure path with that
\* failure's message, returns the 500 response carrying it, and the recognizer
\* is never run; the recognizer runs only right after a converter that exited
\* with status zero.
C7_NormalizationFailureIsTerminal ==
    \A i \in Invs :
        /\ \A e \in DOMAIN ConversionFailure :
            Has(i, e)
                => /\ Last(calls[i]) = e
                   /\ pc[i] \in Failing
                   /\ err[i] = ConversionFailure[e]
                   /\ pc[i] = "done"
                        => resp[i] = Response(500, "error",
                                              "Processing failed: " \o ConversionFailure[e])
        /\ \A k \in 1..Len(calls[i]) :
            calls[i][k] = "recognizer" => k > 1 /\ calls[i][k - 1] = "ffmpeg:0"

C7_Witness ==
    \E i, j \in Invs :
        /\ Has(i, "ffmpeg:1") /\ pc[i] = "done"
        /\ Has(j, "audio:missing") /\ pc[j] = "done"

\* C8: after a successful normalization nothing raises before transcribe_audio
\* has returned its text: an exception is never raised right after the
\* converter's success or right after the recognizer's run.
C8_DecodingNeverFails ==
    \A i \in Invs :
        pc[i] = "except" => Last(calls[i]) \notin {"ffmpeg:0", "recognizer"}

\* The length of s between its first and its last character that is no space.
TrimmedLen(s) ==
    LET solid == {k \in 1..Len(s) : s[k] \notin Whitespace}
    IN  IF solid = {} THEN 0
        ELSE (CHOOSE k \in solid : \A m \in solid : m <= k)
                - (CHOOSE k \in solid : \A m \in solid : k <= m) + 1

\* C9: when the loop has returned, the text it hands on is the placeholder if
\* the joined text is shorter than the floor after trimming, and the joined
\* text itself, untrimmed, otherwise.
C9_PlaceholderSubstitution ==
    dpc = "returned"
        => /\ TrimmedLen(full_text) < MinChars => ret = Placeholder
           /\ TrimmedLen(full_text) >= MinChars => ret = full_text

C9_Witness ==
    /\ dpc = "returned"
    /\ Len(full_text) = MinChars
    /\ TrimmedLen(full_text) = MinChars - 1
    /\ ret = Placeholder

\* The texts of the utterances the frames read so far finalized, in order:
\* those of the frames that finalized a result holding a text that is not blank.
Finalized(frames) ==
    LET keep == {k \in 1..Len(frames) :
                    /\ frames[k].final
                    /\ frames[k].res.has
                    /\ TrimmedLen(frames[k].res.text) > 0}
        pos[n \in 0..Len(frames)] ==
            IF n = 0 THEN <<>>
            ELSE IF n \in keep THEN Append(pos[n - 1], frames[n].res.text)
            ELSE pos[n - 1]
    IN  pos[Len(frames)]

\* The flush's text when it is not blank.
Trailing(r) == IF r.has /\ TrimmedLen(r.text) > 0 THEN <<r.text>> ELSE <<>>

\* The texts with one space between each two, built from the right.
RECURSIVE SpaceSeparated(_)
SpaceSeparated(us) ==
    IF us = <<>> THEN <<>>
    ELSE IF Len(us) = 1 THEN us[1]
    ELSE SpaceSeparated(SubSeq(us, 1, Len(us) - 1)) \o <<" ">> \o us[Len(us)]

\* C10: in the loop the accumulated list is the finalized utterances of the
\* frames read, in order; after the flush it is those followed by the flush's
\* text; the joined text is these texts with single spaces between them.
C10_TranscriptIsFinalizedUtterances ==
    /\ dpc = "loop" => transcription = Finalized(fed)
    /\ dpc \in {"join", "returned"} => transcription = Finalized(fed) \o Trailing(flushed)
    /\ dpc = "returned" => full_text = SpaceSeparated(Finalized(fed) \o Trailing(flushed))

C10_Witness ==
    /\ dpc = "returned"
    /\ Len(fed) = 2
    /\ ~fed[1].final
    /\ fed[2].final
    /\ Len(transcription) = 2
    /\ Len(full_text) = Len(transcription[1]) + 1 + Len(transcription[2])

\* C11: download_via_y2mate returns a path only when the file at that path
\* exists and holds at least MinBytes bytes; once the payload was written in
\* full, a payload of exactly MinBytes bytes is accepted and a payload one byte
\* smaller is turned down at the size test.
C11_SuccessOnlyAboveFloor ==
    /\ (ypc = "returned" /\ yret # NoPath) =>
          /\ yret \in DOMAIN fs
          /\ fs[yret].size >= MinBytes
    /\ (ypc = "returned" /\ yfail.step \in {"", "verify"} /\ AudioMp3 \in DOMAIN fs) =>
          /\ (fs[AudioMp3].size = MinBytes => yret = AudioMp3 /\ yfail = NoFailure)
          /\ (fs[AudioMp3].size = MinBytes - 1 => yret = NoPath /\ yfail.step = "verify")

C11_Witness ==
    /\ ypc = "returned"
    /\ yret = AudioMp3
    /\ AudioMp3 \in DOMAIN fs
    /\ fs[AudioMp3].size = MinBytes

\* The steps of the handshake that reach outside the function, in the order of
\* the code.
Handshake == <<"analyze", "convert", "download", "open">>

IsPrefix(s, t) == Len(s) <= Len(t) /\ \A n \in 1..Len(s) : s[n] = t[n]

\* How many steps of the handshake were taken when the given step is reached.
StepsBefore(step) ==
    CASE step = "video_id" -> 0
      [] step \in {"analyze", "select"} -> 1
      [] step = "convert" -> 2
      [] step = "download" -> 3
      [] OTHER -> 4

\* C12: a failure at any step of download_via_y2mate (no video id, a status
\* code other than 200, a status other than ok, no format key, no download
\* link, a timeout, any other exception, a payload below the floor) ends the
\* function with None: no exception leaves the function, no step of the
\* handshake after the failing one is taken, and no step is taken twice.
C12_StrategyFailureIsLocal ==
    /\ ypc # "propagated"
    /\ IsPrefix(issued, Handshake)
    /\ yfail # NoFailure =>
          /\ ypc = "returned"
          /\ yret = NoPath
          /\ Len(issued) = StepsBefore(yfail.step)

C12_Witness ==
    /\ ypc = "returned"
    /\ yret = NoPath
    /\ yfail = [step |-> "convert", why |-> "Exception"]
    /\ issued = <<"analyze", "convert">>

\* How often the event occurs in the stage log of invocation i.
Count(i, events) == Cardinality({k \in 1..Len(calls[i]) : calls[i][k] \in events})

\* C13, as the claim states it: a failed acquisition reports one sub-reason for
\* each of three strategies attempted in order.
C13_ThreeSubReasons ==
    \A i \in Invs :
        (Has(i, "download:None") /\ pc[i] = "done") => Count(i, {"download:None"}) = 3

\* C13, amended: download_via_y2mate is the only acquisition strategy and is
\* called at most once in an invocation; when it returns None the invocation
\* has done nothing else and answers 500 with the one fixed message for a
\* failed download, which carries no reason of the strategy.
C13_SingleStrategyOnce ==
    \A i \in Invs :
        /\ Count(i, {"download_via_y2mate"}) <= 1
        /\ Count(i, {"download:None", "download:path"}) <= 1
        /\ Has(i, "download:None") =>
              /\ calls[i] = <<"download_via_y2mate", "download:None">>
              /\ resp[i] = Response(500, "error", DownloadFailed)

C13_Witness ==
    \E i \in Invs :
        /\ calls[i] = <<"download_via_y2mate", "download:None">>
        /\ written[i] = {}
        /\ resp[i].code = 500

\* The positions and events of download_via_y2mate.
AcquisitionPositions == {"y2mate", "y2mate_save", "y2mate_verify"}

AcquisitionEvents == {"download_via_y2mate", "download:None", "download:path"}

\* C14: an invocation of /convert-upload is never inside download_via_y2mate,
\* logs no call and no result of it, writes no audio.mp3, and the first stage
\* it invokes is the extraction of the audio from the saved file.
C14_UploadSkipsAcquisition ==
    \A i \in Invs :
        route[i] = "upload" =>
            /\ pc[i] \notin AcquisitionPositions
            /\ Count(i, AcquisitionEvents) = 0
            /\ AudioMp3 \notin written[i]
            /\ calls[i] # <<>> => calls[i][1] \in {"extract:0", "extract:1"}

C14_Witness ==
    \E i \in Invs :
        /\ route[i] = "upload"
        /\ pc[i] = "done"
        /\ resp[i].code = 200
        /\ calls[i][1] = "extract:0"

\* transcribe_audio was called by invocation i and has returned or raised.
TranscribeEnded(i) ==
    /\ Count(i, {"ffmpeg:0", "ffmpeg:1"}) > 0
    /\ pc[i] \notin {"wave_open", "wav_exists", "wav_remove"}

\* C15: whenever transcribe_audio has returned a text or raised, the
\* temp_audio.wav its converter wrote is no longer on disk.
C15_WavDeletedAfterDecoding ==
    \A i \in Invs :
        TranscribeEnded(i) => ~(WavFile \in DOMAIN fs /\ fs[WavFile].by = i)

\* The step of the handshake was taken.
Issued(step) == \E n \in 1..Len(issued) : issued[n] = step

\* C16: the steps of the handshake are taken in the order analyze, convert,
\* download, open; the convert request is sent only after the analyze request
\* answered 200 with status ok and a format key was found; the download is
\* requested only after the convert request answered 200 with status ok and a
\* non-empty link; audio.mp3 is opened only after the download answered 200.
C16_HandshakeOrdered ==
    /\ IsPrefix(issued, Handshake)
    /\ Issued("convert") =>
          /\ analyze_response.status_code = 200
          /\ analyze_response.status = "ok"
          /\ k_value \notin {NoKey, "", KeyMissing}
    /\ Issued("download") =>
          /\ convert_response.status_code = 200
          /\ convert_response.status = "ok"
          /\ convert_response.dlink \notin {NoKey, ""}
    /\ Issued("open") => download_response.status_code = 200
    /\ AudioMp3 \in DOMAIN fs => Issued("open")

C16_Witness ==
    /\ issued = Handshake
    /\ ypc = "verify"
    /\ download_response.status_code = 200
    /\ AudioMp3 \in DOMAIN fs

\* The response of a handler that has returned: a success, or an error with a
\* message that is not empty.
Answered(i) ==
    \/ resp[i].status = "success" /\ resp[i].code = 200
    \/ resp[i].status = "error" /\ resp[i].code \in {400, 500} /\ resp[i].message # ""

\* Every handler of the run has returned, or the recognizer loop of the run has
\* reached its return statement.
Terminated ==
    \/ dpc = "off" /\ \A i \in Invs : pc[i] = "done"
    \/ dpc = "returned"

\* C17: every invocation returns, and the recognizer loop reaches its return
\* statement for every finite stream; a handler that has returned has produced
\* a response, a success or an error with a non-empty message, a handler that
\* has not returned has produced none, and a response once produced is never
\* replaced.
C17_EveryInvocationAnswers ==
    /\ <>Terminated
    /\ [](\A i \in Invs : IF pc[i] = "done" THEN Answered(i) ELSE resp[i] = NoResponse)
    /\ [][\A i \in Invs : resp[i] # NoResponse => resp'[i] = resp[i]]_vars

C17_Witness ==
    \E i \in Invs :
        /\ pc[i] = "done"
        /\ resp[i].code = 500
        /\ err[i] # ""
        /\ Has(i, "send_email")

\* What create_pdf_from_text and send_email raise.
DeliveryFailures == {"PDF creation failed", "SMTP error"}

\* C18: in every invocation send_email is called at most once and only after
\* create_pdf_from_text, which is called only after the recognizer returned;
\* an email was delivered only by send_email; the success response is returned
\* only when the email was delivered and nothing raised; and after a failure of
\* create_pdf_from_text or send_email the response is the 500 error.
C18_DeliveryOrdering ==
    \A i \in Invs :
        /\ Count(i, {"send_email"}) <= 1
        /\ OnlyAfter(i, {"send_email"}, "create_pdf_from_text")
        /\ OnlyAfter(i, {"create_pdf_from_text"}, "recognizer")
        /\ sent[i] # NoContent => Has(i, "send_email")
        /\ (pc[i] = "done" /\ resp[i].status = "success") =>
              /\ Last(calls[i]) = "send_email"
              /\ sent[i] # NoContent
              /\ err[i] = ""
        /\ (pc[i] = "done" /\ err[i] \in DeliveryFailures) =>
              /\ resp[i].status = "error"
              /\ resp[i].code = 500

C18_Witness ==
    \E i \in Invs :
        /\ pc[i] = "done"
        /\ resp[i].status = "success"
        /\ route[i] = "convert"
        /\ sent[i] # NoContent

\* The upload names whose extension is not one of the allowed ones.
RefusedNames == {<<"notes">>, <<"talk", "txt">>}

\* The requests the claim lists: /convert without a video_url or an email,
\* /convert-upload without an email, without a file part, with an empty
\* filename or with a refused extension.
Rejected(i) ==
    \/ /\ route[i] = "convert"
       /\ req[i].video_url = <<>> \/ req[i].email = ""
    \/ /\ route[i] = "upload"
       /\ \/ req[i].email = ""
          \/ ~req[i].has_video
          \/ req[i].filename = <<>>
          \/ req[i].filename \in RefusedNames

\* C19: a rejected request is answered 400 at once and has done nothing: no
\* stage was invoked (no remote request, no converter, no email), no file was
\* written, and no file on disk comes from it.
C19_RejectedRequestsHaveNoEffect ==
    \A i \in Invs :
        Rejected(i) =>
            /\ pc[i] = "done"
            /\ resp[i].code = 400
            /\ resp[i].status = "error"
            /\ calls[i] = <<>>
            /\ written[i] = {}
            /\ sent[i] = NoContent
            /\ \A f \in DOMAIN fs : fs[f].by # i

C19_Witness ==
    \E i \in Invs :
        /\ route[i] = "upload"
        /\ req[i] = [email |-> "user@example.com", has_video |-> TRUE,
                     filename |-> <<"talk", "txt">>]
        /\ resp[i].code = 400

\* The two lists of the analyze answer; a list that is absent has no entry.
Mp3 == analyze_response.links.mp3.entries

Mp4 == analyze_response.links.mp4.entries

\* A key the convert request can be sent with.
Usable(k) == k \notin {NoKey, "", KeyMissing}

\* The key of the preferred MP3 entry: the one named mp3128 when there is one,
\* else the first listed.
Mp3Key ==
    IF \E n \in 1..Len(Mp3) : Mp3[n].name = "mp3128"
    THEN Mp3[CHOOSE n \in 1..Len(Mp3) : Mp3[n].name = "mp3128"].k
    ELSE IF Mp3 # <<>> THEN Mp3[1].k
    ELSE NoKey

\* The format selection has run.
FormatSelected ==
    /\ ypc \notin {"start", "analyze", "select"}
    /\ yfail.step \notin {"video_id", "analyze"}

====
